---- MODULE Spec2Model ----
(***************************************************************************)
(* Calibration feedback loop of moteur_calcul_pi4 (Residentiel):           *)
(*   - BayesianOptimizer          src/core/bayesian_optimizer.py           *)
(*   - CalibrationManager         src/core/calibration_manager.py          *)
(*   - the per-iteration pipeline (preparator, simulations, results        *)
(*     processing, provincial aggregation, validation)                     *)
(* Parameter values and scores are fixed-point numbers in hundredths       *)
(* (0.92 is 92, 3.5 is 350); the std thresholds 0.01 are 1 in that unit.   *)
(***************************************************************************)
EXTENDS Integers, Sequences, FiniteSets, TLC

VARIABLES
    X,                  \* BayesianOptimizer.X : evaluated points, in order
    y,                  \* BayesianOptimizer.y : observed scores, in order
    gp_n,               \* number of observations the GP was last fitted on (0: never)
    current_params,     \* value returned by the client's last suggest_parameters() call
    suggest_branch,     \* the branch of suggest_parameters that produced it
    suggest_calls,      \* suggest_parameters() calls made on the optimizer so far
    fit_attempts,       \* gp.fit calls made so far
    pc,                 \* position of run_calibration_campaign
    campaign_status,    \* CalibrationManager.campaign_status (started, completed)
    current_iteration,  \* CalibrationManager.current_iteration
    hydro_data,         \* ValidationSystem.hydro_data is loaded
    files,              \* artefacts on disk, as <<directory key, iteration, name>>
    iter_log,           \* what the last loop pass did (the log lines it wrote)
    result,             \* value returned by run_calibration_campaign
    provincial,         \* provincial results and metadata last written by the aggregator
    pool_pc,            \* position of run_provincial_simulations and of what follows it
    futures,            \* state of the future submitted for each building
    collected,          \* buildings in the order as_completed yielded their future
    selected_archetypes,\* houseSubType of the rows of selected_archetypes.csv
    type_counts,        \* value_counts of lien_physique_description
    archetype_weights,  \* weight computed for each row that received one
    weights_log,        \* last outcome of calculate_provincial_weights
    raw_rows,           \* data rows of the results file last processed, as [t, v]
    result_df,          \* what _process_results_file returned for them
    vs_hydro_data,      \* ValidationSystem.hydro_data: the reference series or None
    vs_simulation_results,  \* ValidationSystem.simulation_results or None
    vs_metrics,            \* what calculate_metrics returned in the last evaluation
    vs_score,              \* what calculate_objective_function returned last
    prev_metrics,       \* metrics of the evaluation before the last one
    prev_score,         \* score of the evaluation before the last one
    po_observations,    \* ParamsOptimizer.observations, as their scores
    po_best_score,      \* ParamsOptimizer.best_score
    po_convergence_count,       \* ParamsOptimizer.convergence_count
    po_no_improvement_count,    \* ParamsOptimizer.no_improvement_count
    po_answer,          \* what check_convergence returned last since the last update
    pre_pc,             \* position of the preprocessing run_calibration_campaign
    pre_iteration,      \* its current_iteration
    pre_passes          \* passes through its loop body so far

vars == <<X, y, gp_n, current_params, suggest_branch, suggest_calls, fit_attempts,
          pc, campaign_status,
          current_iteration, hydro_data, files, iter_log, result, provincial,
          pool_pc, futures, collected,
          selected_archetypes, type_counts, archetype_weights, weights_log,
          raw_rows, result_df,
          vs_hydro_data, vs_simulation_results, vs_metrics, vs_score, prev_metrics, prev_score,
          po_observations, po_best_score, po_convergence_count, po_no_improvement_count,
          po_answer, pre_pc, pre_iteration, pre_passes>>

optVars == <<X, y, gp_n, current_params, suggest_branch, suggest_calls, fit_attempts>>
poolVars == <<pool_pc, futures, collected>>
weightVars == <<selected_archetypes, type_counts, archetype_weights, weights_log>>
seriesVars == <<raw_rows, result_df>>
valVars == <<vs_hydro_data, vs_simulation_results, vs_metrics, vs_score, prev_metrics, prev_score>>
paramsVars == <<po_observations, po_best_score, po_convergence_count,
                po_no_improvement_count, po_answer>>
preVars == <<pre_pc, pre_iteration, pre_passes>>
extVars == <<weightVars, seriesVars, valVars, paramsVars, preVars>>
mgrVars == <<pc, campaign_status, current_iteration, hydro_data, files, iter_log, result,
             provincial, poolVars>>

(***************************************************************************)
(* Bounds of the model                                                     *)
(***************************************************************************)
NumParams == 2          \* how many entries of the parameter table are modelled
MaxObs == 5             \* longest observation history explored
GridLevels == 2         \* Latin-hypercube fractions k/GridLevels, k < GridLevels
MaxIterations == 2      \* max_iterations passed to run_calibration_campaign
CallCap == 3            \* suggest_calls counts up to CallCap, which stands for "or more"
NumHours == 2           \* hours of a series (8760 in the program)
MaxWorkers == 2         \* max_workers of the process pool
MaxArchetypes == 3      \* rows of selected_archetypes.csv
MaxCount == 2           \* buildings of one description in the residential data
TargetHours == 3        \* rows of a normalized series (8760 in the program)
MaxRows == 5            \* longest results file explored, in data rows
YearSlots == 4          \* hours of a validated year (8760 in the program)
MaxPasses == 8          \* loop passes of the preprocessing campaign explored
MaxConvergenceCount == 4    \* convergence_count explored

\* np.random.normal(prior_mean, prior_std) as prior_mean + k * prior_std
Deviates == {-3, 0}
\* scores a client or the scorer may report, in hundredths
Scores == {0, 3}

(***************************************************************************)
(* Parameter table: BayesianOptimizer.__init__                             *)
(***************************************************************************)
ParamOrder ==
    << "heating_system_efficiency", "air_leakage_value", "heating_setpoint",
       "cooling_setpoint", "wall_assembly_r" >>

Parameters ==
    [ heating_system_efficiency |-> [low |-> 90,   high |-> 95,   prior_mean |-> 92,   prior_std |-> 1],
      air_leakage_value         |-> [low |-> 300,  high |-> 400,  prior_mean |-> 350,  prior_std |-> 20],
      heating_setpoint          |-> [low |-> 1900, high |-> 2100, prior_mean |-> 2000, prior_std |-> 50],
      cooling_setpoint          |-> [low |-> 2400, high |-> 2600, prior_mean |-> 2500, prior_std |-> 50],
      wall_assembly_r           |-> [low |-> 250,  high |-> 450,  prior_mean |-> 350,  prior_std |-> 30] ]

ParamNames == { ParamOrder[i] : i \in 1..NumParams }

NoParams == [ p \in ParamNames |-> -1 ]     \* None (no suggestion yet)

(***************************************************************************)
(* Parameter.sample: a normal draw clipped to the range                    *)
(***************************************************************************)
\* a draw returned as drawn
ClipNone(v, lo, hi) == v

Clip(v, lo, hi) == IF v < lo THEN lo ELSE IF v > hi THEN hi ELSE v

Sample(p, k) ==
    Clip(Parameters[p].prior_mean + k * Parameters[p].prior_std,
         Parameters[p].low, Parameters[p].high)

\* _random_sample and the warm-up branch of suggest_parameters
RandomSamples == { [ p \in ParamNames |-> Sample(p, d[p]) ] : d \in [ParamNames -> Deviates] }

(***************************************************************************)
(* _create_parameter_grid: unit fractions scaled into each range           *)
(***************************************************************************)
GridValue(p, k) ==
    Parameters[p].low + (k * (Parameters[p].high - Parameters[p].low)) \div GridLevels

ParameterGrid ==
    { [ p \in ParamNames |-> GridValue(p, u[p]) ] : u \in [ParamNames -> 0..(GridLevels - 1)] }

(***************************************************************************)
(* suggest_parameters: the set of vectors a call may return.               *)
(* The GP's predictions are not modelled numerically: the argmax of the    *)
(* Expected Improvement is some row of the grid; a GP error (predict       *)
(* raising) takes the fallback.                                            *)
(***************************************************************************)
WarmUp == 3

\* the GP consulted whatever the history holds
SuggestBranchesAlwaysGp(Xs) == {"ei", "fallback"}

\* the branches a call may take, and what each may return
SuggestBranches(Xs) ==
    IF Len(Xs) < WarmUp THEN {"warmup"} ELSE {"ei", "fallback"}

\* the except branch returning nothing
SuggestFromNoFallback(branch) ==
    IF branch = "ei" THEN ParameterGrid
    ELSE IF branch = "fallback" THEN { NoParams }
    ELSE RandomSamples

SuggestFrom(branch) ==
    IF branch = "ei" THEN ParameterGrid ELSE RandomSamples

SuggestParameters(Xs) ==
    UNION { SuggestFrom(b) : b \in SuggestBranches(Xs) }

\* one more call of suggest_parameters
CountCall(calls) == IF calls < CallCap THEN calls + 1 ELSE calls

(***************************************************************************)
(* check_convergence                                                       *)
(***************************************************************************)
Infinity == 1000000000     \* float('inf'): above every finite score
NaN == -999999             \* float('nan')

Window == 3
\* just enough observations to have one before the window
MinObservationsWindowOnly == Window + 1
MinObservations == 5
ScoreStdThreshold == 1
ParamStdThreshold == 1

RECURSIVE SeqSum(_)
SeqSum(s) == IF s = <<>> THEN 0 ELSE Head(s) + SeqSum(Tail(s))

RECURSIVE SeqMin(_)
SeqMin(s) == IF Len(s) = 1 THEN Head(s)
             ELSE LET m == SeqMin(Tail(s)) IN IF Head(s) < m THEN Head(s) ELSE m

LastN(s, n) == SubSeq(s, Len(s) - n + 1, Len(s))
AllButLastN(s, n) == SubSeq(s, 1, Len(s) - n)

\* np.std(s) < t  (population standard deviation), without the square root:
\* n * sum(v^2) - sum(v)^2 < n^2 * t^2
\* (the std of a window holding float('inf') is nan, and nan < t is false)
StdBelow(s, t) ==
    LET n == Len(s)
        sq == [ i \in 1..n |-> s[i] * s[i] ]
    IN  /\ \A i \in 1..n : s[i] < Infinity
        /\ n * SeqSum(sq) - SeqSum(s) * SeqSum(s) < n * n * t * t

\* one stable parameter taken for all of them
CheckConvergenceAnyParam(Xs, ys) ==
    IF Len(Xs) < MinObservations
        THEN FALSE
        ELSE LET recent_scores == LastN(ys, Window)
                 recent_params == LastN(Xs, Window)
                 params_stable ==
                     \E p \in ParamNames :
                        StdBelow([ i \in 1..Window |-> recent_params[i][p] ], ParamStdThreshold)
                 best_score_improving ==
                     IF Len(ys) > Window
                        THEN SeqMin(recent_scores) < SeqMin(AllButLastN(ys, Window))
                        ELSE TRUE
             IN  StdBelow(recent_scores, ScoreStdThreshold)
                 /\ params_stable
                 /\ ~best_score_improving

CheckConvergence(Xs, ys) ==
    IF Len(Xs) < MinObservations
        THEN FALSE
        ELSE LET recent_scores == LastN(ys, Window)
                 recent_params == LastN(Xs, Window)
                 params_stable ==
                     \A p \in ParamNames :
                        StdBelow([ i \in 1..Window |-> recent_params[i][p] ], ParamStdThreshold)
                 best_score_improving ==
                     IF Len(ys) > Window
                        THEN SeqMin(recent_scores) < SeqMin(AllButLastN(ys, Window))
                        ELSE TRUE
             IN  StdBelow(recent_scores, ScoreStdThreshold)
                 /\ params_stable
                 /\ ~best_score_improving

(***************************************************************************)
(* update: append, then refit when more than 2 points                      *)
(***************************************************************************)
\* a fit only from the fourth point on
FitThresholdLate == WarmUp
FitThreshold == 2

\* the new point put in front of the history
UpdateXPrepend(Xs, params) == <<params>> \o Xs

UpdateX(Xs, params) == Append(Xs, params)
UpdateY(ys, score) == Append(ys, score)

\* gp.fit is deterministic (random_state=42) and validates its input: it
\* raises on a history that holds float('inf') and fits any finite one
FitSucceeds(ys) == \A i \in 1..Len(ys) : ys[i] < Infinity /\ ys[i] # NaN

\* gp.fit on the whole history: the fitted size, or the old model if fit raised
UpdateGp(n_after, old, fit_ok) ==
    IF n_after > FitThreshold /\ fit_ok THEN n_after ELSE old

UpdateRaises(n_after, fit_ok) == n_after > FitThreshold /\ ~fit_ok

\* gp.fit is called when more than 2 points are held after the append
UpdateFitAttempts(n_after, old) == IF n_after > FitThreshold THEN old + 1 ELSE old

(***************************************************************************)
(* Artefacts on disk.  A file is <<directory, iteration, building, name>>; *)
(* building 0 is used for per-iteration files.  get_iteration_dirs returns *)
(* a dict with exactly these keys.                                         *)
(***************************************************************************)
NumBuildings == 2
Buildings == 1..NumBuildings        \* the selected archetypes

IterationDirKeys ==
    { "simulation_dir", "processed_dir", "provincial_dir",
      "provincial_file", "validation_file", "calibration_dir" }

\* paths[k] raises KeyError unless k is a key of the dict
HasKey(k) == k \in IterationDirKeys

\* prepare_provincial_iteration: one workflow per archetype that could be prepared
PrepareProvincialIteration(it, prepared, fs) ==
    [ ok    |-> prepared # {},
      files |-> fs \cup { <<"simulation_dir", it, b, "workflow.osw">> : b \in prepared } ]

\* run_provincial_simulations: every directory holding a workflow is simulated;
\* a successful run leaves its results_timeseries.csv
RunProvincialSimulations(it, succeeded, fs) ==
    LET simulations == { b \in Buildings : <<"simulation_dir", it, b, "workflow.osw">> \in fs }
        successful  == succeeded \cap simulations
    IN  IF ~HasKey("simulation_dir") \/ simulations = {}
           THEN [ ok |-> FALSE, files |-> fs ]
           ELSE [ ok    |-> successful # {},
                  files |-> fs \cup { <<"simulation_dir", it, b, "results_timeseries.csv">> : b \in successful }
                               \cup { <<"simulation_dir", it, 0, "simulation_report.json">> } ]

\* process_iteration_results: output_dir = paths['iteration_dir']
ProcessIterationResults(it, valid, fs) ==
    IF ~HasKey("iteration_dir")
       THEN [ ok |-> FALSE, files |-> fs ]
       ELSE LET processed == { b \in Buildings :
                                 /\ <<"simulation_dir", it, b, "results_timeseries.csv">> \in fs
                                 /\ b \in valid }
            IN  [ ok    |-> processed # {},
                  files |-> fs \cup { <<"iteration_dir", it, b, "processed.csv">> : b \in processed } ]

\* self.archetype_weights: buildings represented by each archetype
ArchetypeWeights == [ b \in Buildings |-> b + 1 ]

Hours == 1..NumHours

\* the processed series of a building (total_electricity, hour by hour)
ProcessedSeries(b) == [ h \in Hours |-> 10 * b + h ]

\* the sum of weight x value at hour h over the buildings of S
RECURSIVE WeightedSum(_, _)
WeightedSum(S, h) ==
    IF S = {} THEN 0
    ELSE LET b == CHOOSE c \in S : TRUE
         IN  ArchetypeWeights[b] * ProcessedSeries(b)[h] + WeightedSum(S \ {b}, h)

\* lines 187-221: the buildings whose processed file is missing are skipped
AggregateSeries(processed) == [ h \in Hours |-> WeightedSum(processed, h) ]

\* lines 231-238; rates are in hundredths, so (processed / total) * 100 is
\* processed * 10000 / total
AggregateMetadata(processed) ==
    [ processed_archetypes |-> Cardinality(processed),
      total_archetypes     |-> Cardinality(Buildings),
      success_rate         |-> (Cardinality(processed) * 10000) \div Cardinality(Buildings) ]

NoProvincial == [ written |-> FALSE, iteration |-> 0, included |-> {},
                  series |-> [ h \in Hours |-> 0 ], metadata |-> AggregateMetadata({}) ]

\* aggregate_provincial_results: reads paths['iteration_dir'] / <arch>_processed.csv,
\* writes results_dir / provincial_results_iter_<it>.csv and metadata_iter_<it>.json
AggregateProvincialResults(it, weights_ok, fs, prov) ==
    IF ~weights_ok \/ ~HasKey("iteration_dir")
       THEN [ ok |-> FALSE, files |-> fs, provincial |-> prov ]
       ELSE LET processed == { b \in Buildings : <<"iteration_dir", it, b, "processed.csv">> \in fs }
            IN  IF processed = {}
                   THEN [ ok |-> FALSE, files |-> fs, provincial |-> prov ]
                   ELSE [ ok    |-> TRUE,
                          files |-> fs \cup { <<"results_dir", it, 0, "provincial_results_iter.csv">> },
                          provincial |-> [ written   |-> TRUE,
                                           iteration |-> it,
                                           included  |-> processed,
                                           series    |-> AggregateSeries(processed),
                                           metadata  |-> AggregateMetadata(processed) ] ]

\* get_iteration_results: results_dir / provincial_results_iter_<it>.csv, or None
GetIterationResults(it, fs) ==
    <<"results_dir", it, 0, "provincial_results_iter.csv">> \in fs

\* load_simulation_results: paths['provincial_file'] = provincial_dir/iteration_<it>/results.csv
LoadSimulationResults(it, fs) ==
    /\ HasKey("provincial_file")
    /\ <<"provincial_file", it, 0, "results.csv">> \in fs

\* _run_iteration: the four stages in order, the first failure raises and
\* None is returned; env gives what the outside world does in this pass
RunIteration(it, env, fs, prov) ==
    LET s1 == PrepareProvincialIteration(it, env.prepared, fs)
        s2 == RunProvincialSimulations(it, env.succeeded, s1.files)
        s3 == ProcessIterationResults(it, env.valid, s2.files)
        s4 == AggregateProvincialResults(it, env.weights_ok, s3.files, prov)
    IN  IF ~s1.ok THEN [ ok |-> FALSE, stage |-> "prepare", files |-> s1.files, provincial |-> prov ]
        ELSE IF ~s2.ok THEN [ ok |-> FALSE, stage |-> "simulate", files |-> s2.files, provincial |-> prov ]
        ELSE IF ~s3.ok THEN [ ok |-> FALSE, stage |-> "process", files |-> s3.files, provincial |-> prov ]
        ELSE IF ~s4.ok THEN [ ok |-> FALSE, stage |-> "aggregate", files |-> s4.files, provincial |-> prov ]
        ELSE IF ~GetIterationResults(it, s4.files)
                THEN [ ok |-> FALSE, stage |-> "results", files |-> s4.files,
                       provincial |-> s4.provincial ]
        ELSE [ ok |-> TRUE, stage |-> "done", files |-> s4.files, provincial |-> s4.provincial ]

(***************************************************************************)
(* _get_final_results                                                      *)
(***************************************************************************)
\* the first observation taken for the best one
ArgMinFirst(s) == 1

\* np.argmin: the first index holding the minimum
ArgMin(s) == CHOOSE i \in 1..Len(s) :
                /\ \A j \in 1..Len(s) : s[i] <= s[j]
                /\ \A j \in 1..(i - 1) : s[j] > s[i]

GetFinalResults(Xs, ys, it) ==
    [ ret                  |-> "result",
      best_score           |-> IF Len(ys) > 0 THEN SeqMin(ys) ELSE Infinity,
      has_best             |-> Len(Xs) > 0,
      best_parameters      |-> IF Len(Xs) > 0 THEN Xs[ArgMin(ys)] ELSE NoParams,
      iterations_completed |-> it ]

\* get_campaign_status: the status string derived from campaign_status
StatusReport(cs) ==
    IF cs.completed THEN "completed" ELSE IF cs.started THEN "running" ELSE "not_started"

(***************************************************************************)
(* BuildingStockAggregator.calculate_provincial_weights                    *)
(* A weight type_count / n_archetypes is kept as the pair of its numerator *)
(* and denominator; sums of weights are taken over the common denominator  *)
(* WeightScale.                                                            *)
(***************************************************************************)
MainTypes == { "Detache", "Jumele", "En rangee 1 cote", "En rangee plus de 1 cote", "Integre" }

\* lines 57-63
InverseMapping ==
    [ m \in MainTypes |->
        CASE m = "Detache" -> { "Single Detached", "Detached Duplex",
                                "Detached Triplex", "Mobile Home" }
          [] m = "Jumele" -> { "Double/Semi-detached" }
          [] m = "En rangee 1 cote" -> { "Row house, end unit" }
          [] m = "En rangee plus de 1 cote" -> { "Row house, middle unit" }
          [] m = "Integre" -> { "Apartment" } ]

\* the houseSubType values of the selection the model draws from; the last one
\* is a subtype of the archetype data that no list of inverse_mapping holds
SubTypeSamples == { "Single Detached", "Mobile Home", "Apartment", "Attached Triplex" }

\* the lien_physique_description values of the residential data the model draws
\* from; the last one is a description outside the five main types
Descriptions == { "Detache", "Integre", "Autre" }

\* the loops of lines 79-84 and 90-107 stop at the first list holding the subtype
MainTypeOf(subtype) == { m \in MainTypes : subtype \in InverseMapping[m] }

\* lines 76-84: archetype_counts
ArchetypeCounts(sel, m) ==
    Cardinality({ i \in 1..Len(sel) : sel[i] \in InverseMapping[m] })

\* type_counts.get(main_type, 0)
TypeCount(counts, m) == IF m \in DOMAIN counts THEN counts[m] ELSE 0

RECURSIVE SumOver(_, _)
SumOver(f, S) ==
    IF S = {} THEN 0
    ELSE LET k == CHOOSE c \in S : TRUE IN f[k] + SumOver(f, S \ {k})

\* line 53: total_buildings = len(residential_data)
TotalBuildings(counts) == SumOver(counts, DOMAIN counts)

\* lines 86-107: the rows whose subtype is in a list receive
\* type_count / n_archetypes; the others receive no entry
WeightDenominatorOne(sel, m) == 1

WeightDenominator(sel, m) == ArchetypeCounts(sel, m)

WeightedRows(sel) == { i \in 1..Len(sel) : MainTypeOf(sel[i]) # {} }

CalculateWeights(sel, counts) ==
    [ i \in WeightedRows(sel) |->
        LET m == CHOOSE c \in MainTypeOf(sel[i]) : TRUE
        IN  [ num |-> TypeCount(counts, m), den |-> WeightDenominator(sel, m) ] ]

RECURSIVE Factorial(_)
Factorial(n) == IF n <= 1 THEN 1 ELSE n * Factorial(n - 1)

WeightScale == Factorial(MaxArchetypes)

\* weights_series.sum(), times WeightScale
TotalWeighted(w) ==
    SumOver([ i \in DOMAIN w |-> (w[i].num * WeightScale) \div w[i].den ], DOMAIN w)

Abs(n) == IF n < 0 THEN -n ELSE n

\* np.isclose(total_weighted, total_buildings, rtol=0.01):
\* |a - b| <= atol + rtol * |b| with atol = 1e-8, which decides nothing here
IsCloseTotal(total_weighted, total_buildings) ==
    100 * Abs(total_weighted - WeightScale * total_buildings)
        <= WeightScale * total_buildings

WeightsInit ==
    /\ selected_archetypes = <<>>
    /\ type_counts = [ d \in {} |-> 0 ]
    /\ archetype_weights = [ i \in {} |-> 0 ]
    /\ weights_log = "none"

(***************************************************************************)
(* ResultsManager._process_results_file: the rows of a results file are    *)
(* records [t, v] of a timestamp in hours and the total_electricity value. *)
(***************************************************************************)
\* result_df.loc[t] = row: the row at index t is replaced, or a row is added
LocAssign(df, t, v) ==
    IF \E i \in 1..Len(df) : df[i].t = t
       THEN [ i \in 1..Len(df) |-> IF df[i].t = t THEN [ t |-> t, v |-> v ] ELSE df[i] ]
       ELSE Append(df, [ t |-> t, v |-> v ])

\* the row the missing hours are filled with
PadValueZero(df) == 0

PadValue(df) == df[Len(df)].v

\* lines 220-224; the timestamps of a results file increase, so the loop ends
RECURSIVE ExtendRows(_, _)
ExtendRows(df, next_hour) ==
    IF Len(df) >= TargetHours THEN df
    ELSE ExtendRows(LocAssign(df, next_hour, PadValue(df)), next_hour + 1)

\* lines 213-224
NormalizeLength(df) ==
    IF Len(df) = TargetHours THEN df
    ELSE IF Len(df) > TargetHours THEN SubSeq(df, 1, TargetHours)
    ELSE ExtendRows(df, df[Len(df)].t + 1)

NoFrame == << [ t |-> -1, v |-> -1 ] >>      \* None

\* lines 171-232: with no data row min(numerical_values) raises and None is returned
ProcessResultsFileOf(rows) ==
    IF Len(rows) = 0 THEN NoFrame ELSE NormalizeLength(rows)

SeriesInit ==
    /\ raw_rows = <<>>
    /\ result_df = NoFrame

(***************************************************************************)
(* ValidationSystem: metrics and objective.  Energies are whole kWh;       *)
(* metrics are fixed-point hundredths (One is 1.00) and the score is in    *)
(* hundredths too.  Infinity stands for float('inf'), NaN for float('nan').*)
(***************************************************************************)
One == 100
NoneSeries == << -1 >>                       \* None
NoneMetrics == [ rmse |-> -1, mae |-> -1, ratio_means |-> -1,
                 winter_mse |-> -1, summer_mse |-> -1, seasonal_bias |-> -1 ]
NoScore == -1                                \* calculate_objective_function not called yet

\* floor of the square root
RECURSIVE ISqrtBetween(_, _, _)
ISqrtBetween(x, lo, hi) ==
    IF lo >= hi THEN lo
    ELSE LET mid == (lo + hi + 1) \div 2
         IN  IF mid * mid <= x THEN ISqrtBetween(x, mid, hi)
                               ELSE ISqrtBetween(x, lo, mid - 1)

\* 46340 is the largest root whose square fits the machine integers
ISqrt(x) == ISqrtBetween(x, 0, IF x < 46340 THEN x ELSE 46340)

\* float division a / b of a fixed-point a by a whole b: no exception on b = 0
FloatDiv(a, b) ==
    IF a = NaN THEN NaN
    ELSE IF b = 0 THEN (IF a = 0 THEN NaN ELSE Infinity)
    ELSE IF a = Infinity THEN Infinity
    ELSE a \div b

\* the generic index starts on 2000-01-01: a year of quarters starting in winter
Slots == 1..YearSlots
WinterSlots == { h \in Slots : h % 4 = 1 }
SummerSlots == { h \in Slots : h % 4 = 3 }

SeriesSum(x) == SumOver(x, DOMAIN x)
SqError(h, s) == [ i \in DOMAIN h |-> (h[i] - s[i]) * (h[i] - s[i]) ]
AbsError(h, s) == [ i \in DOMAIN h |-> Abs(h[i] - s[i]) ]
\* np.mean over the rows of a mask
MeanOver(f, S) == FloatDiv(SumOver(f, S) * One, Cardinality(S))

\* lines 96-152; a simulated series of another length fails on the season mask
CalculateMetrics(h, s) ==
    IF h = NoneSeries \/ s = NoneSeries THEN NoneMetrics
    ELSE IF Len(s) # Len(h) THEN NoneMetrics
    ELSE LET winter_error == MeanOver(SqError(h, s), WinterSlots)
             summer_error == MeanOver(SqError(h, s), SummerSlots)
         IN  [ rmse          |-> ISqrt(MeanOver(SqError(h, s), DOMAIN h) * One),
               mae           |-> MeanOver(AbsError(h, s), DOMAIN h),
               ratio_means   |-> FloatDiv(SeriesSum(s) * One, SeriesSum(h)),
               winter_mse    |-> winter_error,
               summer_mse    |-> summer_error,
               seasonal_bias |-> IF winter_error = NaN \/ summer_error = NaN
                                    THEN NaN ELSE Abs(winter_error - summer_error) ]

SeriesMax(h) == CHOOSE v \in { h[i] : i \in DOMAIN h } : \A i \in DOMAIN h : h[i] <= v
SeriesMin(h) == CHOOSE v \in { h[i] : i \in DOMAIN h } : \A i \in DOMAIN h : v <= h[i]

\* self.hydro_data.mean() or 1.0
MeanOrOne(h) ==
    LET mean == MeanOver(h, DOMAIN h) IN IF mean = 0 THEN One ELSE mean

RangeSq(h) == (SeriesMax(h) - SeriesMin(h)) * (SeriesMax(h) - SeriesMin(h))

\* the normaliser of the seasonal bias without its fallback
RangeSqRaw(h) == RangeSq(h)

\* (self.hydro_data.max() - self.hydro_data.min()) ** 2 or 1.0
RangeSqOrOne(h) == IF RangeSq(h) = 0 THEN 1 ELSE RangeSq(h)

RmseComponent(m, h) == (m.rmse * One) \div MeanOrOne(h)

\* the deviation of the ratio with its sign kept
RatioComponentSigned(m) ==
    IF m.ratio_means \in { NaN, Infinity } THEN m.ratio_means
    ELSE m.ratio_means - One

RatioComponent(m) ==
    IF m.ratio_means \in { NaN, Infinity } THEN m.ratio_means
    ELSE Abs(m.ratio_means - One)

SeasonalComponent(m, h) == FloatDiv(m.seasonal_bias, RangeSqOrOne(h))

\* 0.35 * rmse_component + 0.45 * ratio_component + 0.20 * seasonal_component
WeightedScore(rmse_c, ratio_c, seasonal_c) ==
    IF NaN \in { rmse_c, ratio_c, seasonal_c } THEN NaN
    ELSE IF Infinity \in { rmse_c, ratio_c, seasonal_c } THEN Infinity
    ELSE (35 * rmse_c + 45 * ratio_c + 20 * seasonal_c) \div 100

\* the score returned when the objective cannot be computed, as a large finite one
FailureScoreFinite == Infinity - 1

\* except Exception: return float('inf')
FailureScore == Infinity

\* lines 188-221
CalculateObjectiveFunction(h, s) ==
    LET m == CalculateMetrics(h, s)
    IN  IF m = NoneMetrics THEN FailureScore
        ELSE WeightedScore(RmseComponent(m, h), RatioComponent(m), SeasonalComponent(m, h))

ValidationInit ==
    /\ vs_hydro_data = NoneSeries
    /\ vs_simulation_results = NoneSeries
    /\ vs_metrics = NoneMetrics
    /\ vs_score = NoScore
    /\ prev_metrics = NoneMetrics
    /\ prev_score = NoScore

(***************************************************************************)
(* ParamsOptimizer (src/preprocessing and src/core share this logic).      *)
(* Scores are hundredths; an observation is kept as its score.             *)
(***************************************************************************)
ConvergenceThreshold == 1       \* calibration_thresholds['convergence'] = 0.01
MaxNoImprovement == 10          \* calibration_thresholds['max_no_improvement']
MinIterations == 3              \* calibration_thresholds['min_iterations']
ConvergenceCountNeeded == 3     \* convergence_count >= 3

SeqMax(q) == CHOOSE v \in { q[i] : i \in DOMAIN q } : \A i \in DOMAIN q : q[i] <= v

\* max(recent_scores) - min(recent_scores) < threshold; inf - inf is NaN and
\* inf - x is inf, and neither is below the threshold
VariationBelowThreshold(recent) ==
    /\ SeqMax(recent) < Infinity
    /\ SeqMax(recent) - SeqMin(recent) < ConvergenceThreshold

\* the count a call of check_convergence leaves behind
ConvergenceCountAfter(obs, cc) ==
    IF Len(obs) < MinIterations THEN cc
    ELSE IF VariationBelowThreshold(LastN(obs, 3)) THEN cc + 1
    ELSE 0

\* the answer of check_convergence
ParamsConverged(obs, cc, nic) ==
    IF Len(obs) < MinIterations THEN FALSE
    ELSE \/ ConvergenceCountAfter(obs, cc) >= ConvergenceCountNeeded
         \/ nic >= MaxNoImprovement

\* ParamsOptimizer.update(parameters, score)
UpdatedParams(sc) ==
    /\ po_observations' = Append(po_observations, sc)
    /\ IF sc < po_best_score
          THEN /\ po_best_score' = sc
               /\ po_no_improvement_count' = 0
          ELSE /\ po_best_score' = po_best_score
               /\ po_no_improvement_count' = po_no_improvement_count + 1

ParamsInit ==
    /\ po_observations = <<>>
    /\ po_best_score = Infinity
    /\ po_convergence_count = 0
    /\ po_no_improvement_count = 0
    /\ po_answer = "none"

PreInit ==
    /\ pre_pc = "not_started"
    /\ pre_iteration = 0
    /\ pre_passes = 0

(***************************************************************************)
(* Initial state: CalibrationManager.__init__ / BayesianOptimizer.__init__ *)
(***************************************************************************)
NoLog == [ kind |-> "none", stage |-> "none", suggest |-> "none",
           prepared |-> {}, succeeded |-> {} ]
Pending == [ ret |-> "pending", best_score |-> 0, has_best |-> FALSE,
             best_parameters |-> NoParams, iterations_completed |-> 0 ]
ReturnedNone == [ Pending EXCEPT !.ret = "None" ]

Init ==
    /\ X = <<>>
    /\ y = <<>>
    /\ gp_n = 0
    /\ current_params = NoParams
    /\ suggest_branch = "none"
    /\ suggest_calls = 0
    /\ fit_attempts = 0
    /\ pc = "not_started"
    /\ campaign_status = [ started |-> FALSE, completed |-> FALSE ]
    /\ current_iteration = 0
    /\ hydro_data = FALSE
    /\ files = {}
    /\ iter_log = NoLog
    /\ result = Pending
    /\ provincial = NoProvincial
    /\ pool_pc = "idle"
    /\ futures = [ b \in Buildings |-> "none" ]
    /\ collected = <<>>
    /\ WeightsInit
    /\ SeriesInit
    /\ ValidationInit
    /\ ParamsInit
    /\ PreInit

(***************************************************************************)
(* The optimizer driven by a client, as tests/test_bayesian.py drives it   *)
(***************************************************************************)
ClientSuggest ==
    /\ \E b \in SuggestBranches(X) : \E v \in SuggestFrom(b) :
          /\ suggest_branch' = b
          /\ current_params' = v
    /\ suggest_calls' = CountCall(suggest_calls)
    /\ UNCHANGED <<X, y, gp_n, fit_attempts>>
    /\ UNCHANGED mgrVars
    /\ UNCHANGED extVars

ClientUpdate ==
    /\ current_params # NoParams
    /\ Len(X) < MaxObs
    /\ \E score \in Scores :
          /\ X' = UpdateX(X, current_params)
          /\ y' = UpdateY(y, score)
          /\ gp_n' = UpdateGp(Len(X) + 1, gp_n, FitSucceeds(UpdateY(y, score)))
    /\ fit_attempts' = UpdateFitAttempts(Len(X) + 1, fit_attempts)
    /\ UNCHANGED <<current_params, suggest_branch, suggest_calls>>
    /\ UNCHANGED mgrVars
    /\ UNCHANGED extVars

NextOpt == ClientSuggest \/ ClientUpdate

SpecOpt == Init /\ [][NextOpt]_vars

(***************************************************************************)
(* A client warm-starts the manager's optimizer through update() before    *)
(* the campaign is run (calibrator.optimizer is a public attribute)        *)
(***************************************************************************)
WarmVectors == { [ p \in ParamNames |-> Sample(p, k) ] : k \in Deviates }

WarmUpdate ==
    /\ pc = "not_started"
    /\ Len(X) < MaxObs
    /\ \E v \in WarmVectors, score \in Scores :
          /\ X' = UpdateX(X, v)
          /\ y' = UpdateY(y, score)
          /\ gp_n' = UpdateGp(Len(X) + 1, gp_n, FitSucceeds(UpdateY(y, score)))
    /\ fit_attempts' = UpdateFitAttempts(Len(X) + 1, fit_attempts)
    /\ UNCHANGED <<current_params, suggest_branch, suggest_calls>>
    /\ UNCHANGED mgrVars
    /\ UNCHANGED extVars

(***************************************************************************)
(* A client feeds update() with any vector and with any score the scorer   *)
(* may return, float('inf') included, and asks for suggestions             *)
(***************************************************************************)
\* scores calculate_objective_function may return
ScorerScores == Scores \cup {Infinity}

DirectUpdate ==
    /\ Len(X) < MaxObs
    /\ \E v \in WarmVectors, score \in ScorerScores :
          /\ X' = UpdateX(X, v)
          /\ y' = UpdateY(y, score)
          /\ gp_n' = UpdateGp(Len(X) + 1, gp_n, FitSucceeds(UpdateY(y, score)))
    /\ fit_attempts' = UpdateFitAttempts(Len(X) + 1, fit_attempts)
    /\ UNCHANGED <<current_params, suggest_branch, suggest_calls>>
    /\ UNCHANGED mgrVars
    /\ UNCHANGED extVars

NextDirect == DirectUpdate \/ ClientSuggest

SpecDirect == Init /\ [][NextDirect]_vars

(***************************************************************************)
(* CalibrationManager.run_calibration_campaign                             *)
(***************************************************************************)
\* lines 66-73: load the reference data, set up the display; a failure of
\* either raises into the outer except, which returns None
\* the result of load_hydro_quebec_data not looked at
AfterSetupIgnoreLoad(hydro_ok, display_ok) ==
    IF display_ok THEN "running" ELSE "returned"

AfterSetup(hydro_ok, display_ok) ==
    IF hydro_ok /\ display_ok THEN "running" ELSE "returned"

StartCampaign ==
    /\ pc = "not_started"
    /\ campaign_status' = [ campaign_status EXCEPT !.started = TRUE ]
    /\ \E hydro_ok \in BOOLEAN, display_ok \in BOOLEAN :
          /\ hydro_data' = hydro_ok
          /\ pc' = AfterSetup(hydro_ok, display_ok)
          /\ result' = IF pc' = "returned" THEN ReturnedNone ELSE result
    /\ UNCHANGED <<optVars, current_iteration, files, iter_log, provincial, poolVars>>
    /\ UNCHANGED extVars

\* the budget alone
LoopGuardBudgetOnly(Xs, ys, it) == it < MaxIterations

\* the while condition, line 75
LoopGuard(Xs, ys, it) == ~CheckConvergence(Xs, ys) /\ it < MaxIterations

\* a skip that also counts the index it did not run
NextIterationSkipTwo(it) == it + 2
\* the counter left alone (continue without the increment)
NextIterationStuck(it) == it

\* self.current_iteration += 1 on the skip, exception and completion paths
NextIteration(it) == it + 1

\* One pass through the loop body, lines 76-128
Iteration ==
    /\ pc = "running"
    /\ LoopGuard(X, y, current_iteration)
    /\ \E branch \in SuggestBranches(X) :
       \E params \in SuggestFrom(branch), prepared \in SUBSET Buildings :
       \E succeeded \in SUBSET prepared :
       \E valid \in (IF HasKey("iteration_dir") THEN SUBSET succeeded ELSE {succeeded}),
          weights_ok \in (IF HasKey("iteration_dir") THEN BOOLEAN ELSE {TRUE}) :
          LET env == [ prepared |-> prepared, succeeded |-> succeeded,
                       valid |-> valid, weights_ok |-> weights_ok ]
              run == RunIteration(current_iteration, env, files, provincial)
              log(kind, stage) == [ kind |-> kind, stage |-> stage, suggest |-> branch,
                                    prepared |-> prepared, succeeded |-> succeeded ]
          IN  /\ current_iteration' = NextIteration(current_iteration)
              /\ IF params = NoParams
                    THEN \* lines 79-80, caught at 125-128
                         /\ iter_log' = log("exception", "suggest")
                         /\ UNCHANGED <<X, y, gp_n, fit_attempts, files, provincial>>
                 ELSE IF ~run.ok
                    THEN \* lines 84-86
                         /\ iter_log' = log("skipped_run", run.stage)
                         /\ files' = run.files
                         /\ provincial' = run.provincial
                         /\ UNCHANGED <<X, y, gp_n, fit_attempts>>
                 ELSE IF ~LoadSimulationResults(current_iteration, run.files)
                    THEN \* lines 89-92
                         /\ iter_log' = log("skipped_load", "load")
                         /\ files' = run.files
                         /\ provincial' = run.provincial
                         /\ UNCHANGED <<X, y, gp_n, fit_attempts>>
                 ELSE \* lines 95-123, and 125-128 when a step of them raises
                      /\ files' = run.files
                      /\ provincial' = run.provincial
                      /\ \E score \in ScorerScores, record_ok \in BOOLEAN, viz_ok \in BOOLEAN :
                         LET fit_ok == FitSucceeds(UpdateY(y, score))
                         IN  IF ~record_ok
                                THEN \* lines 95-99 raise: update is not reached
                                     /\ iter_log' = log("exception", "score")
                                     /\ UNCHANGED <<X, y, gp_n, fit_attempts>>
                                ELSE /\ X' = UpdateX(X, params)
                                     /\ y' = UpdateY(y, score)
                                     /\ gp_n' = UpdateGp(Len(X) + 1, gp_n, fit_ok)
                                     /\ fit_attempts' = UpdateFitAttempts(Len(X) + 1, fit_attempts)
                                     /\ iter_log' =
                                           IF UpdateRaises(Len(X) + 1, fit_ok)
                                              THEN log("exception", "update")
                                           ELSE IF ~viz_ok THEN log("exception", "visualizer")
                                           ELSE log("completed", "done")
    /\ suggest_calls' = CountCall(suggest_calls)
    /\ UNCHANGED <<current_params, suggest_branch, pc, campaign_status, hydro_data, result>>
    /\ UNCHANGED poolVars
    /\ UNCHANGED extVars

\* lines 130-131: the loop has ended, the final results are returned
Finish ==
    /\ pc = "running"
    /\ ~LoopGuard(X, y, current_iteration)
    /\ result' = GetFinalResults(X, y, current_iteration)
    /\ pc' = "returned"
    /\ UNCHANGED <<optVars, campaign_status, current_iteration, hydro_data, files, iter_log,
                   provincial, poolVars>>
    /\ UNCHANGED extVars

Next == StartCampaign \/ Iteration \/ Finish

\* the campaign of a freshly constructed manager
Spec == Init /\ [][Next]_vars

\* the campaign of a manager whose optimizer was warm-started
NextWarm == WarmUpdate \/ StartCampaign \/ Iteration \/ Finish

SpecWarm == Init /\ [][NextWarm]_vars

\* the loop is sequential code: once entered, it keeps running
SpecLive == Spec /\ WF_vars(Iteration) /\ WF_vars(Finish)

(***************************************************************************)
(* One pass of _run_iteration with the process pool of                     *)
(* run_provincial_simulations step by step: the futures are submitted,     *)
(* the workers run them in any order, as_completed hands them back as they *)
(* finish, and the with block is left once every future is done.           *)
(***************************************************************************)
Range(s) == { s[i] : i \in 1..Len(s) }

Submitted(futs) == { b \in Buildings : futs[b] # "none" }

Finished(futs) == { b \in Buildings : futs[b] \in {"ok", "failed"} }

Successful(futs) == { b \in Buildings : futs[b] = "ok" }

\* the for loop over as_completed(futures) is exhausted and the executor is shut
\* down with wait=True at the end of the with block
PoolBarrierFirstCompleted(futs, coll) == Len(coll) >= 1

PoolBarrier(futs, coll) == Submitted(futs) \subseteq Range(coll)

\* prepare_provincial_iteration
PoolPrepare ==
    /\ pool_pc = "idle"
    /\ \E prepared \in SUBSET Buildings :
          LET s1 == PrepareProvincialIteration(current_iteration, prepared, files)
          IN  /\ files' = s1.files
              /\ pool_pc' = IF s1.ok THEN "prepared" ELSE "skipped"
    /\ UNCHANGED <<optVars, pc, campaign_status, current_iteration, hydro_data, iter_log,
                   result, provincial, futures, collected>>
    /\ UNCHANGED extVars

\* run_provincial_simulations up to the submissions
PoolSubmit ==
    /\ pool_pc = "prepared"
    /\ LET simulations == { b \in Buildings :
                              <<"simulation_dir", current_iteration, b, "workflow.osw">> \in files }
       IN  IF ~HasKey("simulation_dir") \/ simulations = {}
              THEN /\ pool_pc' = "skipped"
                   /\ UNCHANGED futures
              ELSE /\ pool_pc' = "collecting"
                   /\ futures' = [ b \in Buildings |->
                                     IF b \in simulations THEN "pending" ELSE "none" ]
    /\ UNCHANGED <<optVars, pc, campaign_status, current_iteration, hydro_data, files,
                   iter_log, result, provincial, collected>>
    /\ UNCHANGED extVars

\* a worker of the pool takes a pending simulation
WorkerStart(b) ==
    /\ futures[b] = "pending"
    /\ Cardinality({ c \in Buildings : futures[c] = "running" }) < MaxWorkers
    /\ futures' = [ futures EXCEPT ![b] = "running" ]
    /\ UNCHANGED <<optVars, pc, campaign_status, current_iteration, hydro_data, files,
                   iter_log, result, provincial, pool_pc, collected>>
    /\ UNCHANGED extVars

\* _run_single_simulation returns: the subprocess ended with or without returncode 0
WorkerFinish(b) ==
    /\ futures[b] = "running"
    /\ \E success \in BOOLEAN :
          /\ futures' = [ futures EXCEPT ![b] = IF success THEN "ok" ELSE "failed" ]
          /\ files' = IF success
                         THEN files \cup { <<"simulation_dir", current_iteration, b,
                                             "results_timeseries.csv">> }
                         ELSE files
    /\ UNCHANGED <<optVars, pc, campaign_status, current_iteration, hydro_data,
                   iter_log, result, provincial, pool_pc, collected>>
    /\ UNCHANGED extVars

\* one turn of the loop over as_completed(futures)
PoolCollect(b) ==
    /\ pool_pc = "collecting"
    /\ b \in Finished(futures)
    /\ b \notin Range(collected)
    /\ collected' = Append(collected, b)
    /\ UNCHANGED <<optVars, pc, campaign_status, current_iteration, hydro_data, files,
                   iter_log, result, provincial, pool_pc, futures>>
    /\ UNCHANGED extVars

\* the with block is left, the report is saved, successful > 0 is returned
PoolReturn ==
    /\ pool_pc = "collecting"
    /\ PoolBarrier(futures, collected)
    /\ files' = files \cup { <<"simulation_dir", current_iteration, 0, "simulation_report.json">> }
    /\ pool_pc' = IF Successful(futures) \cap Range(collected) # {} THEN "simulated" ELSE "skipped"
    /\ UNCHANGED <<optVars, pc, campaign_status, current_iteration, hydro_data,
                   iter_log, result, provincial, futures, collected>>
    /\ UNCHANGED extVars

\* process_iteration_results, aggregate_provincial_results, get_iteration_results
PoolAfterSimulations ==
    /\ pool_pc = "simulated"
    /\ \E valid \in SUBSET Buildings, weights_ok \in BOOLEAN :
          LET s3 == ProcessIterationResults(current_iteration, valid, files)
              s4 == AggregateProvincialResults(current_iteration, weights_ok, s3.files, provincial)
          IN  IF ~s3.ok
                 THEN /\ files' = s3.files
                      /\ pool_pc' = "skipped"
                      /\ UNCHANGED provincial
                 ELSE /\ files' = s4.files
                      /\ provincial' = s4.provincial
                      /\ pool_pc' = IF s4.ok /\ GetIterationResults(current_iteration, s4.files)
                                       THEN "done" ELSE "skipped"
    /\ UNCHANGED <<optVars, pc, campaign_status, current_iteration, hydro_data,
                   iter_log, result, futures, collected>>
    /\ UNCHANGED extVars

\* the rest of the loop body: update() when the pass gave results, then the
\* increment of current_iteration
PoolNextIteration ==
    /\ pool_pc \in {"skipped", "done"}
    /\ current_iteration < MaxIterations
    /\ IF pool_pc = "done" /\ current_params # NoParams /\ Len(X) < MaxObs
          THEN \E score \in ScorerScores :
                  /\ X' = UpdateX(X, current_params)
                  /\ y' = UpdateY(y, score)
                  /\ gp_n' = UpdateGp(Len(X) + 1, gp_n, FitSucceeds(UpdateY(y, score)))
                  /\ fit_attempts' = UpdateFitAttempts(Len(X) + 1, fit_attempts)
          ELSE UNCHANGED <<X, y, gp_n, fit_attempts>>
    /\ current_iteration' = NextIteration(current_iteration)
    /\ pool_pc' = "idle"
    /\ futures' = [ b \in Buildings |-> "none" ]
    /\ collected' = <<>>
    /\ UNCHANGED <<current_params, suggest_branch, suggest_calls, pc, campaign_status,
                   hydro_data, files, iter_log, result, provincial>>
    /\ UNCHANGED extVars

NextPool ==
    \/ PoolPrepare
    \/ PoolSubmit
    \/ \E b \in Buildings : WorkerStart(b)
    \/ \E b \in Buildings : WorkerFinish(b)
    \/ \E b \in Buildings : PoolCollect(b)
    \/ PoolReturn
    \/ PoolAfterSimulations
    \/ PoolNextIteration

SpecPool == Init /\ [][NextPool]_vars

(***************************************************************************)
(* calculate_provincial_weights applied to a selection and a population    *)
(***************************************************************************)
Selections == UNION { [ 1..n -> SubTypeSamples ] : n \in 0..MaxArchetypes }

Populations == [ Descriptions -> 0..MaxCount ]

\* value_counts lists the descriptions that occur
ValueCounts(pop) == [ d \in { e \in Descriptions : pop[e] > 0 } |-> pop[d] ]

\* called by aggregate_provincial_results while self.archetype_weights is empty
\* (lines 175-177)
CalculateProvincialWeights ==
    /\ DOMAIN archetype_weights = {}
    /\ \/ \* lines 46-50 raise, caught at 126
          /\ weights_log' = "error"
          /\ UNCHANGED <<selected_archetypes, type_counts, archetype_weights>>
       \/ \E sel \in Selections, pop \in Populations :
             LET w == CalculateWeights(sel, ValueCounts(pop))
             IN  /\ selected_archetypes' = sel
                 /\ type_counts' = ValueCounts(pop)
                 /\ archetype_weights' = w
                 /\ weights_log' = IF IsCloseTotal(TotalWeighted(w),
                                                   TotalBuildings(ValueCounts(pop)))
                                      THEN "verified" ELSE "warning"
    /\ UNCHANGED <<optVars, mgrVars, seriesVars, valVars, paramsVars, preVars>>

NextWeights == CalculateProvincialWeights

SpecWeights == Init /\ [][NextWeights]_vars

(***************************************************************************)
(* _process_results_file applied to a results file                         *)
(***************************************************************************)
\* timestamps start at hour 0 and increase by one or two hours a row
RECURSIVE Stamped(_, _, _)
Stamped(vals, steps, t) ==
    IF Len(vals) = 0 THEN <<>>
    ELSE << [ t |-> t, v |-> Head(vals) ] >>
            \o Stamped(Tail(vals), Tail(steps), t + Head(steps))

ResultsFiles ==
    UNION { { Stamped(vals, steps, 0) : vals \in [ 1..n -> 0..1 ], steps \in [ 1..n -> 1..2 ] }
            : n \in 0..MaxRows }

ProcessResultsFile ==
    /\ \E rows \in ResultsFiles :
          /\ raw_rows' = rows
          /\ result_df' = ProcessResultsFileOf(rows)
    /\ UNCHANGED <<optVars, mgrVars, weightVars, valVars, paramsVars, preVars>>

NextSeries == ProcessResultsFile

SpecSeries == Init /\ [][NextSeries]_vars

(***************************************************************************)
(* ValidationSystem driven as in test_single_iteration: the reference is   *)
(* loaded once, then simulated series are set and scored.                  *)
(***************************************************************************)
HydroSeries == [ Slots -> { 0, 100 } ]
SimulatedSeries ==
    [ Slots -> { 0, 100 } ] \cup { NoneSeries, [ i \in 1..(YearSlots - 1) |-> 100 ] }

\* load_hydro_quebec_data: hourly sums of a consumption, never negative; it is
\* called before the first evaluation, and a failed load leaves None
LoadHydroQuebecData ==
    /\ vs_hydro_data = NoneSeries
    /\ vs_score = NoScore
    /\ \E h \in HydroSeries : vs_hydro_data' = h
    /\ UNCHANGED <<vs_simulation_results, vs_metrics, vs_score, prev_metrics, prev_score>>
    /\ UNCHANGED <<optVars, mgrVars, weightVars, seriesVars, paramsVars, preVars>>

\* validator.simulation_results = results; validator.calculate_objective_function()
EvaluateObjective ==
    /\ \E s \in SimulatedSeries :
          /\ vs_simulation_results' = s
          /\ vs_metrics' = CalculateMetrics(vs_hydro_data, s)
          /\ vs_score' = CalculateObjectiveFunction(vs_hydro_data, s)
    /\ prev_metrics' = vs_metrics
    /\ prev_score' = vs_score
    /\ UNCHANGED vs_hydro_data
    /\ UNCHANGED <<optVars, mgrVars, weightVars, seriesVars, paramsVars, preVars>>

NextValidation == LoadHydroQuebecData \/ EvaluateObjective

SpecValidation == Init /\ [][NextValidation]_vars

(***************************************************************************)
(* ParamsOptimizer driven by a caller: update() and check_convergence()    *)
(***************************************************************************)
ParamsScores == { 10, 50, Infinity }
Answer(b) == IF b THEN "true" ELSE "false"

ParamsUpdate ==
    /\ Len(po_observations) < MaxObs
    /\ \E sc \in ParamsScores : UpdatedParams(sc)
    /\ po_answer' = "none"
    /\ UNCHANGED po_convergence_count
    /\ UNCHANGED <<optVars, mgrVars, weightVars, seriesVars, valVars, preVars>>

ParamsCheckConvergence ==
    /\ po_convergence_count < MaxConvergenceCount
    /\ po_answer' = Answer(ParamsConverged(po_observations, po_convergence_count,
                                            po_no_improvement_count))
    /\ po_convergence_count' = ConvergenceCountAfter(po_observations, po_convergence_count)
    /\ UNCHANGED <<po_observations, po_best_score, po_no_improvement_count>>
    /\ UNCHANGED <<optVars, mgrVars, weightVars, seriesVars, valVars, preVars>>

NextParams == ParamsUpdate \/ ParamsCheckConvergence

SpecParams == Init /\ [][NextParams]_vars

(***************************************************************************)
(* src/preprocessing CalibrationManager.run_calibration_campaign           *)
(***************************************************************************)
\* lines 59-69
PreStartCampaign ==
    /\ pre_pc = "not_started"
    /\ \E hydro_ok \in BOOLEAN :
          pre_pc' = IF hydro_ok THEN "running" ELSE "failed"
    /\ pre_iteration' = 0
    /\ UNCHANGED <<pre_passes, paramsVars>>
    /\ UNCHANGED <<optVars, mgrVars, weightVars, seriesVars, valVars>>

\* lines 71-105: the loop test and, when it lets the loop go on, one pass
PreLoopPass ==
    /\ pre_pc = "running"
    /\ pre_passes < MaxPasses
    /\ po_convergence_count < MaxConvergenceCount
    /\ LET converged == ParamsConverged(po_observations, po_convergence_count,
                                         po_no_improvement_count)
           cc1 == ConvergenceCountAfter(po_observations, po_convergence_count)
       IN  IF converged \/ pre_iteration >= MaxIterations
              THEN /\ pre_pc' = "finished"
                   /\ po_convergence_count' = cc1
                   /\ po_answer' = Answer(converged)
                   /\ UNCHANGED <<pre_iteration, pre_passes, po_observations,
                                  po_best_score, po_no_improvement_count>>
              ELSE /\ pre_passes' = pre_passes + 1
                   /\ pre_pc' = "running"
                   /\ \/ \* load_simulation_results fails: continue
                         /\ po_convergence_count' = cc1
                         /\ po_answer' = Answer(converged)
                         /\ UNCHANGED <<pre_iteration, po_observations, po_best_score,
                                        po_no_improvement_count>>
                      \/ \* results loaded: score, update, viz_data, counter
                         /\ \E sc \in ParamsScores : UpdatedParams(sc)
                         /\ po_answer' = Answer(ParamsConverged(po_observations', cc1,
                                                                 po_no_improvement_count'))
                         /\ po_convergence_count' = ConvergenceCountAfter(po_observations', cc1)
                         /\ pre_iteration' = pre_iteration + 1
    /\ UNCHANGED <<optVars, mgrVars, weightVars, seriesVars, valVars>>

NextPre == PreStartCampaign \/ PreLoopPass

SpecPre == Init /\ [][NextPre]_vars

(***************************************************************************)
(* Steps 4 to 6 of a pass of the core run_calibration_campaign (lines      *)
(* 94-102), from the point where load_simulation_results has succeeded     *)
(***************************************************************************)
LoadedSeries == [ Slots -> { 0, 100 } ] \cup { [ i \in 1..(YearSlots - 1) |-> 100 ] }

\* record_iteration copies the metrics: None has no copy() and the pass is skipped
RecordIterationRaises(m) == m = NoneMetrics

ScoringPass ==
    /\ vs_hydro_data # NoneSeries
    /\ LoopGuard(X, y, current_iteration)
    /\ \E branch \in SuggestBranches(X) :
       \E params \in SuggestFrom(branch), s \in LoadedSeries :
          LET sc == CalculateObjectiveFunction(vs_hydro_data, s)
              m  == CalculateMetrics(vs_hydro_data, s)
          IN  IF params = NoParams
                 THEN UNCHANGED <<X, y, gp_n, fit_attempts, vs_simulation_results,
                                  vs_metrics, vs_score, prev_metrics, prev_score>>
                 ELSE /\ vs_simulation_results' = s
                      /\ vs_metrics' = m
                      /\ vs_score' = sc
                      /\ prev_metrics' = vs_metrics
                      /\ prev_score' = vs_score
                      /\ IF RecordIterationRaises(m)
                            THEN UNCHANGED <<X, y, gp_n, fit_attempts>>
                            ELSE /\ X' = UpdateX(X, params)
                                 /\ y' = UpdateY(y, sc)
                                 /\ gp_n' = UpdateGp(Len(X) + 1, gp_n,
                                                     FitSucceeds(UpdateY(y, sc)))
                                 /\ fit_attempts' = UpdateFitAttempts(Len(X) + 1, fit_attempts)
    /\ current_iteration' = NextIteration(current_iteration)
    /\ suggest_calls' = CountCall(suggest_calls)
    /\ UNCHANGED <<current_params, suggest_branch, vs_hydro_data>>
    /\ UNCHANGED <<pc, campaign_status, hydro_data, files, iter_log, result, provincial, poolVars>>
    /\ UNCHANGED <<weightVars, seriesVars, paramsVars, preVars>>

NextScoring == LoadHydroQuebecData \/ ScoringPass

SpecScoring == Init /\ [][NextScoring]_vars

(***************************************************************************)
(* Properties                                                              *)
(***************************************************************************)
IsPrefix(s, t) == Len(s) <= Len(t) /\ SubSeq(t, 1, Len(s)) = s

\* one pass through the loop body: a step of the running campaign that does
\* not return
LoopPass == pc = "running" /\ result' = result /\ vars' # vars

\* a step of the client's update() before the campaign is run
WarmUpdateStep == pc = "not_started" /\ pc' = "not_started" /\ vars' # vars

FailureKinds == { "skipped_run", "skipped_load", "exception" }

C2_FullySimulatedIterationUpdatesOnce ==
    [][ (LoopPass /\ iter_log'.succeeded = Buildings)
            => /\ iter_log'.kind = "completed"
               /\ Len(X') = Len(X) + 1
               /\ Len(y') = Len(y) + 1
               /\ LoadSimulationResults(current_iteration, files') ]_vars

\* C3: the campaign terminates: every loop pass increases current_iteration
\* by exactly one, the counter never exceeds max_iterations, a loop that
\* ends without convergence ends with the counter at max_iterations, and a
\* running campaign eventually returns.
C3_CampaignTerminates ==
    /\ [][ LoopPass => current_iteration' = current_iteration + 1 ]_vars
    /\ [](current_iteration <= MaxIterations)
    /\ []((pc = "returned" /\ result.ret = "result" /\ ~CheckConvergence(X, y))
            => current_iteration = MaxIterations)
    /\ ((pc = "running") ~> (pc = "returned"))

\* the budget ran out: the campaign returned its result after max_iterations passes
C3_Witness ==
    /\ pc = "returned"
    /\ result.ret = "result"
    /\ result.iterations_completed = MaxIterations
    /\ iter_log.kind = "skipped_run"

\* C4: from a state of the running campaign where check_convergence() is
\* true, the only step is the return of the final result: no pass is started,
\* so the history, the files and the counter are left as they are.
C4_NoIterationOnceConverged ==
    [][ (pc = "running" /\ CheckConvergence(X, y))
            => /\ pc' = "returned"
               /\ result'.ret = "result"
               /\ UNCHANGED <<X, y, gp_n, current_iteration, files, iter_log>> ]_vars

\* a campaign returned its result on convergence, before the budget ran out
\* and without having simulated anything
C4_Witness ==
    /\ pc = "returned"
    /\ result.ret = "result"
    /\ CheckConvergence(X, y)
    /\ result.iterations_completed < MaxIterations
    /\ files = {}

\* C5: when load_hydro_quebec_data fails the call returns None at once,
\* leaving the history, the counter and the files untouched, and from then
\* on nothing runs: no pass has been logged and no artefact was written.
C5_LoadFailureIsFatal ==
    /\ [][ (pc = "not_started" /\ campaign_status'.started /\ ~hydro_data')
              => /\ pc' = "returned"
                 /\ result'.ret = "None"
                 /\ UNCHANGED <<X, y, gp_n, current_iteration, files, iter_log>> ]_vars
    /\ []((campaign_status.started /\ ~hydro_data)
              => /\ pc = "returned"
                 /\ result.ret = "None"
                 /\ current_iteration = 0
                 /\ files = {}
                 /\ iter_log = NoLog)

\* a campaign whose optimizer already held observations failed at the load
C5_Witness ==
    /\ pc = "returned"
    /\ campaign_status.started
    /\ ~hydro_data
    /\ result.ret = "None"
    /\ Len(X) > 0

\* C6 (as claimed): the status reported for the campaign follows the call:
\* not started before it, running during it, completed once it has returned.
C6_ReturnedCampaignIsCompleted ==
    /\ pc = "not_started" => StatusReport(campaign_status) = "not_started"
    /\ pc = "running" => StatusReport(campaign_status) = "running"
    /\ pc = "returned" => StatusReport(campaign_status) = "completed"

\* C7: the history is append-only: every step keeps the old X and y as a
\* prefix of the new ones, of equal length, and adds at most one entry; an
\* update() adds exactly one, a completed pass adds exactly one, and a
\* skipped pass or the return of the final result adds none.
C7_HistoryAppendOnly ==
    [][ /\ IsPrefix(X, X')
        /\ IsPrefix(y, y')
        /\ Len(X') = Len(y')
        /\ Len(X') <= Len(X) + 1
        /\ WarmUpdateStep => Len(X') = Len(X) + 1
        /\ (LoopPass /\ iter_log'.kind = "completed") => Len(X') = Len(X) + 1
        /\ (LoopPass /\ iter_log'.kind \in { "skipped_run", "skipped_load" }) => X' = X /\ y' = y
        /\ (pc = "running" /\ pc' = "returned") => X' = X /\ y' = y ]_vars

\* two different observations, in the order they were added, are still
\* there after skipped passes and the return of the final result
C7_Witness ==
    /\ Len(X) >= 2
    /\ X[1] # X[2]
    /\ y[1] # y[2]
    /\ pc = "returned"
    /\ result.ret = "result"
    /\ iter_log.kind = "skipped_run"

\* The four conditions of convergence, stated on the history itself.
\* The population variance of three values a, b, c is
\* ((a-b)^2 + (a-c)^2 + (b-c)^2) / 9, so std < 0.01 (1 in hundredths) is
\* (a-b)^2 + (a-c)^2 + (b-c)^2 < 9.
Spread3(a, b, c) == (a - b) * (a - b) + (a - c) * (a - c) + (b - c) * (b - c)

ScoresSettled ==
    /\ Len(y) >= 3
    /\ Spread3(y[Len(y) - 2], y[Len(y) - 1], y[Len(y)]) < 9

ParamsSettled ==
    /\ Len(X) >= 3
    /\ \A p \in ParamNames :
          Spread3(X[Len(X) - 2][p], X[Len(X) - 1][p], X[Len(X)][p]) < 9

\* no score of the last three is below every earlier score
WindowNotBetter ==
    /\ Len(y) > 3
    /\ \A i \in (Len(y) - 2)..Len(y) : \E j \in 1..(Len(y) - 3) : y[j] <= y[i]

\* C8: check_convergence() is false whenever fewer than 5 observations
\* exist, whatever they are.
C8_NoConvergenceBelowFive ==
    Len(X) < 5 => ~CheckConvergence(X, y)

\* four observations that meet every other condition of convergence
C8_Witness ==
    /\ Len(X) = 4
    /\ ScoresSettled
    /\ ParamsSettled
    /\ WindowNotBetter

\* C9: check_convergence() is true only if at least 5 observations exist,
\* the std of the last 3 scores is below 0.01, the std of each parameter
\* over the last 3 vectors is below 0.01, and the best of the last 3 scores
\* is not better than the best earlier score.
C9_ConvergenceNeedsAllFour ==
    CheckConvergence(X, y)
        => /\ Len(X) >= 5
           /\ Len(y) >= 5
           /\ ScoresSettled
           /\ ParamsSettled
           /\ WindowNotBetter

\* a converged history whose first and last entries differ
C9_Witness ==
    /\ CheckConvergence(X, y)
    /\ y[1] < y[Len(y)]
    /\ X[1] # X[Len(X)]

\* C10: every value suggest_parameters() has returned lies within the
\* declared range of its parameter, whichever branch produced it.
C10_SuggestedWithinRange ==
    current_params # NoParams
        => \A p \in ParamNames :
              /\ Parameters[p].low <= current_params[p]
              /\ current_params[p] <= Parameters[p].high

\* after a GP error the fallback returned a draw that had to be clipped to
\* the lower end of the range
C10_Witness ==
    /\ suggest_branch = "fallback"
    /\ Len(X) >= WarmUp
    /\ \E p \in ParamNames :
          /\ current_params[p] = Parameters[p].low
          /\ Parameters[p].prior_mean - 3 * Parameters[p].prior_std < Parameters[p].low

\* a step of the client's suggest_parameters()
ClientSuggestStep ==
    \/ suggest_calls' # suggest_calls
    \/ current_params' # current_params
    \/ suggest_branch' # suggest_branch

\* v[p] is a prior draw of parameter p clipped to its range
IsPriorDraw(p, v) ==
    \E k \in Deviates :
        LET raw == Parameters[p].prior_mean + k * Parameters[p].prior_std
        IN  \/ raw < Parameters[p].low /\ v = Parameters[p].low
            \/ raw > Parameters[p].high /\ v = Parameters[p].high
            \/ Parameters[p].low <= raw /\ raw <= Parameters[p].high /\ v = raw

\* C11 (as claimed): each of the first 3 suggest_parameters() calls made on
\* an optimizer takes the warm-up branch, whatever update() calls came before.
C11_FirstThreeCallsSamplePrior ==
    [][ (suggest_calls < 3 /\ suggest_calls' = suggest_calls + 1)
            => suggest_branch' = "warmup" ]_vars

\* C11 (amended): a suggest_parameters() call made while the history holds
\* fewer than 3 observations takes the warm-up branch (the GP is not
\* consulted) and returns, for each parameter, a clipped prior draw; a call
\* made once 3 observations are held goes to the GP, however few calls were
\* made before.
C11_WarmUpWhileFewerThanThreeObservations ==
    [][ ClientSuggestStep
            => IF Len(X) < 3
                  THEN /\ suggest_branch' = "warmup"
                       /\ \A p \in ParamNames : IsPriorDraw(p, current_params'[p])
                  ELSE suggest_branch' \in { "ei", "fallback" } ]_vars

\* the third call, made with two observations, drew one parameter below its
\* range (clipped) and the other at its prior mean
C11_Witness ==
    /\ suggest_branch = "warmup"
    /\ suggest_calls = 3
    /\ Len(X) = 2
    /\ current_params[ParamOrder[1]] = Parameters[ParamOrder[1]].low
    /\ current_params[ParamOrder[2]] = Parameters[ParamOrder[2]].prior_mean

\* C12: gp.fit is called only by update(), and exactly by the updates that
\* leave at least 3 observations: a step adds a fit attempt if and only if
\* it appends an observation and 3 or more are then held; a step that leaves
\* the history as it is (any suggest_parameters() call) attempts no fit, and
\* the fitted model changes only in a step that attempted a fit.
C12_FitOnlyInUpdateFromThree ==
    [][ /\ fit_attempts' \in { fit_attempts, fit_attempts + 1 }
        /\ (fit_attempts' = fit_attempts + 1) <=> (Len(X') = Len(X) + 1 /\ Len(X') >= 3)
        /\ X' = X => fit_attempts' = fit_attempts
        /\ gp_n' # gp_n => fit_attempts' = fit_attempts + 1 ]_vars

\* three suggest_parameters() calls in a row attempted no fit; the three
\* updates that followed attempted exactly one, at the third observation
C12_Witness ==
    /\ suggest_calls = 3
    /\ suggest_branch = "warmup"
    /\ Len(X) = 3
    /\ fit_attempts = 1

\* C13: a failure inside the optimizer does not end the campaign: a loop
\* pass whose suggest_parameters() call took the fallback (the candidate
\* search raised) was given a parameter vector and went on with the
\* iteration, and a pass in which update() raised (the GP fit) is caught; in
\* both the campaign stays running and moves to the next iteration index.
C13_OptimizerFailureDoesNotEndCampaign ==
    [][ /\ (LoopPass /\ iter_log'.suggest = "fallback")
              => /\ iter_log'.stage # "suggest"
                 /\ pc' = "running"
                 /\ result'.ret = "pending"
                 /\ current_iteration' = current_iteration + 1
        /\ (LoopPass /\ iter_log'.kind = "exception" /\ iter_log'.stage = "update")
              => /\ pc' = "running"
                 /\ result'.ret = "pending"
                 /\ current_iteration' = current_iteration + 1 ]_vars

\* the last pass of a campaign took the fallback and the campaign ran on to
\* its budget and returned its result
C13_Witness ==
    /\ pc = "returned"
    /\ result.ret = "result"
    /\ iter_log.suggest = "fallback"
    /\ current_iteration = MaxIterations
    /\ Len(X) >= 3

\* C14 (as claimed): whenever the history holds n >= 3 observations, the
\* model suggest_parameters() consults is the one fitted on exactly those n
\* observations.
C14_BeliefFittedOnWholeHistory ==
    Len(X) >= 3 => gp_n = Len(X)

\* C15: the result a campaign returns reports, for a non-empty history, a
\* best_score that no observed score is below and the parameter vector of an
\* observation that has that score; for an empty history it reports
\* best_score = +infinity and best_parameters = None.
C15_BestIsMinimumOfHistory ==
    (pc = "returned" /\ result.ret = "result")
        => IF Len(y) = 0
              THEN /\ result.best_score = Infinity
                   /\ ~result.has_best
                   /\ result.best_parameters = NoParams
              ELSE /\ result.has_best
                   /\ \A i \in 1..Len(y) : result.best_score <= y[i]
                   /\ \E i \in 1..Len(y) : /\ y[i] = result.best_score
                                           /\ X[i] = result.best_parameters

\* the best observation was not the first one, and had other parameters
C15_Witness ==
    /\ pc = "returned"
    /\ result.ret = "result"
    /\ Len(y) >= 2
    /\ y[2] < y[1]
    /\ X[2] # X[1]
    /\ result.best_parameters = X[2]
    /\ result.best_score = y[2]

\* C16: the processing and the aggregation of an iteration start, and a score is
\* passed to update(), only once every simulation submitted for the iteration has
\* finished, in whatever order the workers completed
C16_ProcessingAfterEverySimulation ==
    [][ (PoolAfterSimulations \/ X' # X) => Submitted(futures) = Finished(futures) ]_vars

\* the building submitted second finished first, one run failed, and the
\* processing stage has been through
C16_Witness ==
    /\ pool_pc = "skipped"
    /\ collected = <<2, 1>>
    /\ futures[1] = "ok"
    /\ futures[2] = "failed"

\* the buildings of the last pass whose simulation failed
FailedBuildings(log) == log.prepared \ log.succeeded

\* the aggregator wrote the provincial results of iteration it
AggregateWritten(prov, it) == prov.written /\ prov.iteration = it

\* C17 (as claimed): when the simulation of a building fails and that of another
\* succeeds, the aggregate of the iteration is made without the failed building:
\* its series is not in the aggregated series and the success-rate metadata count
\* it as not processed.
C17_FailedBuildingIsMissingForAggregator ==
    [][ (/\ LoopPass
         /\ iter_log'.stage # "suggest"
         /\ FailedBuildings(iter_log') # {}
         /\ iter_log'.succeeded # {})
            => /\ AggregateWritten(provincial', current_iteration)
               /\ provincial'.included \cap FailedBuildings(iter_log') = {}
               /\ provincial'.metadata.processed_archetypes
                     <= Cardinality(Buildings \ FailedBuildings(iter_log')) ]_vars

\* the buildings with a processed output series for iteration it
AvailableSeries(fs, it) ==
    { b \in Buildings : <<"iteration_dir", it, b, "processed.csv">> \in fs }

\* C18 (as claimed): the aggregated provincial series of an iteration with
\* simulated buildings is, hour by hour, the sum of weight x value over exactly
\* the buildings whose output series is available.
C18_AggregateIsWeightedSumOfAvailable ==
    [][ (LoopPass /\ iter_log'.stage # "suggest" /\ iter_log'.succeeded # {})
            => /\ AggregateWritten(provincial', current_iteration)
               /\ provincial'.included = AvailableSeries(files', current_iteration)
               /\ \A h \in Hours :
                     provincial'.series[h] = WeightedSum(provincial'.included, h) ]_vars

\* C19 (as claimed): the aggregate carries its provenance: the number of
\* buildings processed, the number of candidates and the success rate
\* processed / total (rates in hundredths).
C19_MetadataReportsSuccessRate ==
    [][ (LoopPass /\ iter_log'.stage # "suggest" /\ iter_log'.succeeded # {})
            => /\ AggregateWritten(provincial', current_iteration)
               /\ LET m == provincial'.metadata
                  IN  /\ m.processed_archetypes = Cardinality(provincial'.included)
                      /\ m.total_archetypes = Cardinality(Buildings)
                      /\ m.success_rate * m.total_archetypes
                            = m.processed_archetypes * 100 ]_vars

\* C20 (as claimed): aggregation is linear: the aggregate of an iteration whose
\* buildings are the union of two disjoint sets A and B is, hour by hour, the
\* aggregate of A plus the aggregate of B under the same weights.
C20_AggregationIsLinear ==
    [][ (LoopPass /\ iter_log'.stage # "suggest" /\ Cardinality(iter_log'.succeeded) >= 2)
            => /\ AggregateWritten(provincial', current_iteration)
               /\ \A A \in SUBSET provincial'.included :
                     LET B == provincial'.included \ A
                     IN  \A h \in Hours :
                            provincial'.series[h]
                               = AggregateSeries(A)[h] + AggregateSeries(B)[h] ]_vars

\* calculate_provincial_weights has returned True
WeightsComputed == weights_log \in { "verified", "warning" }

\* the weight of row i is population / archetypes of main type m
IsClassShare(w, i, m) ==
    /\ w[i].num = TypeCount(type_counts, m)
    /\ w[i].den = ArchetypeCounts(selected_archetypes, m)
    /\ w[i].den > 0
    /\ w[i].num >= 0

\* C21 (as claimed): every selected archetype receives a weight, the weight is
\* (buildings of the archetype's main type in the residential data) / (selected
\* archetypes of that main type), and no weight is negative.
C21_EveryArchetypeWeighted ==
    WeightsComputed =>
        \A i \in 1..Len(selected_archetypes) :
            /\ i \in DOMAIN archetype_weights
            /\ \E m \in MainTypes :
                  /\ selected_archetypes[i] \in InverseMapping[m]
                  /\ IsClassShare(archetype_weights, i, m)

\* every building of the residential data has a main type that a selected
\* archetype represents, and every selected archetype has exactly one main type
ExactCoverage ==
    /\ \A d \in DOMAIN type_counts :
          d \in MainTypes /\ ArchetypeCounts(selected_archetypes, d) > 0
    /\ \A i \in 1..Len(selected_archetypes) :
          Cardinality(MainTypeOf(selected_archetypes[i])) = 1

\* C22: with exact coverage the weights sum to the number of buildings of the
\* residential data within 1%; a sum outside the tolerance is logged as a warning
\* and the weights are computed and kept all the same.
C22_WeightsSumToPopulation ==
    /\ (WeightsComputed /\ ExactCoverage)
          => /\ IsCloseTotal(TotalWeighted(archetype_weights), TotalBuildings(type_counts))
             /\ TotalWeighted(archetype_weights) = WeightScale * TotalBuildings(type_counts)
             /\ weights_log = "verified"
    /\ weights_log = "warning"
          => /\ archetype_weights = CalculateWeights(selected_archetypes, type_counts)
             /\ ~IsCloseTotal(TotalWeighted(archetype_weights), TotalBuildings(type_counts))

\* two archetypes share the one building of their main type, a third stands
\* for the two buildings of another
C22_Witness ==
    /\ WeightsComputed
    /\ ExactCoverage
    /\ Len(selected_archetypes) = 3
    /\ TotalBuildings(type_counts) = 3
    /\ \E i \in DOMAIN archetype_weights :
          archetype_weights[i].num = 1 /\ archetype_weights[i].den = 2

\* C23 (as claimed): when exactly one archetype is selected it receives the weight
\* 1.0, whatever the residential data hold.
C23_SingleBuildingWeightOne ==
    (WeightsComputed /\ Len(selected_archetypes) = 1)
        => /\ DOMAIN archetype_weights = {1}
           /\ archetype_weights[1].num = archetype_weights[1].den

Values(df) == [ i \in 1..Len(df) |-> df[i].v ]

ZeroVariance(h) == h # NoneSeries /\ \A i, j \in DOMAIN h : h[i] = h[j]
InputsMissing == vs_hydro_data = NoneSeries \/ vs_simulation_results = NoneSeries

\* C25 as stated: whenever the objective has been evaluated with a series not
\* loaded, with metrics that could not be computed, or with a zero-variance
\* reference series, the value returned is +infinity.
C25_DegenerateInputsGiveInfinity ==
    vs_score # NoScore =>
        ((InputsMissing \/ vs_metrics = NoneMetrics \/ ZeroVariance(vs_hydro_data))
            => vs_score = Infinity)

\* C25 amended: the objective always returns a value; it is +infinity whenever
\* a series is not loaded or the metrics could not be computed, while a
\* zero-variance reference of non-zero mean is scored with the seasonal
\* normaliser replaced by 1 and gets a finite score.
C25_MissingInputsGiveInfinity ==
    vs_score # NoScore =>
        /\ (InputsMissing \/ vs_metrics = NoneMetrics) => vs_score = Infinity
        /\ (vs_metrics # NoneMetrics /\ ZeroVariance(vs_hydro_data) /\ vs_hydro_data[1] # 0)
              => (vs_score >= 0 /\ vs_score < Infinity)

\* the reference is loaded, no simulated series is, and the objective is +infinity
C25_Witness ==
    /\ vs_hydro_data # NoneSeries
    /\ vs_simulation_results = NoneSeries
    /\ vs_score = Infinity

Constant100 == [ i \in Slots |-> 100 ]

\* C26: after scoring a simulated series identical to a reference series of
\* constant value 100, rmse is 0, the ratio of means is 1.0 and the objective is 0.
C26_IdenticalSeriesScoreZero ==
    (vs_score # NoScore /\ vs_hydro_data = Constant100 /\ vs_simulation_results = Constant100)
        => (vs_metrics.rmse = 0 /\ vs_metrics.ratio_means = One /\ vs_score = 0)

\* the identical constant series have been scored
C26_Witness ==
    /\ vs_hydro_data = Constant100
    /\ vs_simulation_results = Constant100
    /\ vs_metrics # NoneMetrics
    /\ vs_score = 0

Computed(m) == m # NoneMetrics /\ NaN \notin { m.rmse, m.ratio_means, m.seasonal_bias }
RatioDeviation(m) == IF m.ratio_means = Infinity THEN Infinity ELSE Abs(m.ratio_means - One)

\* C27: between two evaluations against the same reference, when two of rmse,
\* |ratio_of_means - 1| and seasonal_bias are equal and the third did not
\* decrease, the objective did not decrease.
C27_ObjectiveMonotone ==
    (Computed(vs_metrics) /\ Computed(prev_metrics)) =>
        /\ ( /\ vs_metrics.rmse >= prev_metrics.rmse
             /\ RatioDeviation(vs_metrics) = RatioDeviation(prev_metrics)
             /\ vs_metrics.seasonal_bias = prev_metrics.seasonal_bias ) => vs_score >= prev_score
        /\ ( /\ vs_metrics.rmse = prev_metrics.rmse
             /\ RatioDeviation(vs_metrics) >= RatioDeviation(prev_metrics)
             /\ vs_metrics.seasonal_bias = prev_metrics.seasonal_bias ) => vs_score >= prev_score
        /\ ( /\ vs_metrics.rmse = prev_metrics.rmse
             /\ RatioDeviation(vs_metrics) = RatioDeviation(prev_metrics)
             /\ vs_metrics.seasonal_bias >= prev_metrics.seasonal_bias ) => vs_score >= prev_score

\* the ratio deviation alone grew between two evaluations, and so did the score
C27_Witness ==
    /\ Computed(vs_metrics) /\ Computed(prev_metrics)
    /\ vs_metrics.rmse = prev_metrics.rmse
    /\ vs_metrics.rmse > 0
    /\ vs_metrics.seasonal_bias = prev_metrics.seasonal_bias
    /\ RatioDeviation(vs_metrics) > RatioDeviation(prev_metrics)
    /\ vs_score > prev_score
    /\ vs_score < Infinity

\* C28: the preprocessing campaign makes at most max_iterations passes through
\* its loop body: every pass advances current_iteration.
C28_PassesWithinMaxIterations ==
    /\ pre_passes <= MaxIterations
    /\ pre_passes = pre_iteration

C30_CheckConvergenceIsPure ==
    [][ po_observations' = po_observations =>
            /\ po_convergence_count' = po_convergence_count
            /\ po_answer # "none" => po_answer' = po_answer ]_vars

====
